---- MODULE Spec2Model ----
(***************************************************************************)
(* Flat tree store: EditorStore, its Transaction handle and the node type  *)
(* builders (text leaf, WrappedNode, ArrayNode, RootType).                  *)
(*                                                                         *)
(* The program is synchronous and re-entrant: update bodies, createValue   *)
(* callbacks and child storeNonRoot calls nest.  The model keeps the call  *)
(* stack explicitly; one step runs the code between two points at which    *)
(* caller-supplied code (an update body, a createValue callback, a child   *)
(* node type) gains or returns control.                                    *)
(***************************************************************************)
EXTENDS Integers, Sequences, FiniteSets, TLC

(* ------------------------------ bounds -------------------------------- *)
\* longest JSON array (number of paragraphs) given to a store call
MaxParagraphs == 2
\* number of calls of EditorStore.update, nested ones included
MaxUpdates == 3
\* number of calls update bodies make to a Transaction or a node type
MaxCalls == 2

VARIABLES
    values,              \* Y.Map 'values'      : Key -> FlatValue
    parentKeys,          \* Y.Map 'parentKeys'  : Key -> Key
    state,               \* Y.Map 'state'       : "updateCount" -> number
    lastKeyNumber,       \* EditorStore.lastKeyNumber
    currentTransaction,  \* EditorStore.currentTransaction (0 is null)
    txCreated,           \* number of Transaction objects created so far
    stack,               \* the call stack, outermost frame first
    err,                 \* the error that ended the last top-level call
    last,                \* the call that returned or failed last
    hist,                \* history of calls and allocations
    lastReturn,          \* useEditorStore: lastReturn.current
    otherLastKeyNumber   \* lastKeyNumber of a second EditorStore instance

vars == <<values, parentKeys, state, lastKeyNumber, currentTransaction,
          txCreated, stack, err, last, hist, lastReturn, otherLastKeyNumber>>

(* ------------------------------- keys --------------------------------- *)
\* `${typeName}:${n}` is the pair <<typeName, n>>; 'root' is <<"root", 0>>
rootKey == <<"root", 0>>
\* null / undefined where a key is expected
NullKey == <<"null", 0>>
NoTransaction == 0

TypeNames == {"text", "paragraph", "content"}

(* ---------------------------- flat values ----------------------------- *)
\* a Y.Text holds its content as a list of inserted chunks
YTextNew(s) == [k |-> "ytext", v |-> IF s = <<>> THEN <<>> ELSE <<s>>]

RECURSIVE Concat(_)
Concat(chunks) ==
    IF chunks = <<>> THEN <<>> ELSE Head(chunks) \o Concat(Tail(chunks))

YTextToString(t) == Concat(t.v)

KeyValue(key) == [k |-> "key", v |-> key]
ArrayValue(keys) == [k |-> "array", v |-> keys]
\* a primitive that is no key string
Primitive == [k |-> "prim", v |-> <<>>]

isNonRootKey(value, type) == value.k = "key" /\ value.v[1] = type

isArrayOf(value, type) ==
    value.k = "array" /\ \A i \in 1..Len(value.v) : value.v[i][1] = type

(* ----------------------------- node types ----------------------------- *)
TextType == [typeName |-> "text", kind |-> "text", child |-> "none"]
ParagraphType == [typeName |-> "paragraph", kind |-> "wrapped", child |-> "text"]
ContentType == [typeName |-> "content", kind |-> "array", child |-> "paragraph"]
AppRootType == [typeName |-> "root", kind |-> "root", child |-> "content"]

NonRootTypes == {TextType, ParagraphType, ContentType}

TypeByName(n) ==
    CASE n = "text" -> TextType
      [] n = "paragraph" -> ParagraphType
      [] n = "content" -> ContentType
      [] OTHER -> AppRootType

isValidFlatValue(T, value) ==
    CASE T.kind = "text" -> value.k = "ytext"
      [] T.kind = "wrapped" -> isNonRootKey(value, T.child)
      [] T.kind = "array" -> isArrayOf(value, T.child)
      [] OTHER -> isNonRootKey(value, T.child)

(* --------------------------- store accessors -------------------------- *)
has(key) == key \in DOMAIN values

updateCount ==
    IF "updateCount" \in DOMAIN state THEN state["updateCount"] ELSE 0

getParentKey(key) ==
    IF key \in DOMAIN parentKeys THEN parentKeys[key] ELSE NullKey

Ok(v) == [ok |-> TRUE, v |-> v]
Fail(e) == [ok |-> FALSE, e |-> e]

\* EditorStore.getValue(guard, key), the guard being T's validator
GetValueUnchecked(T, key) ==
    IF ~has(key) \/ ~isValidFlatValue(T, values[key])
    THEN Fail("TypeMismatch")
    ELSE Ok(values[key])

GetValueUnguarded(T, key) ==
    IF ~has(key) THEN Fail("NotFound") ELSE Ok(values[key])

getValue(T, key) ==
    IF ~has(key) THEN Fail("NotFound")
    ELSE IF ~isValidFlatValue(T, values[key]) THEN Fail("TypeMismatch")
    ELSE Ok(values[key])

getFlatValue(T, key) == getValue(T, key)

\* NonRootNode.getParentKey / RootType.getParentKey
NodeGetParentKeyUnchecked(T, key) ==
    IF T.kind = "root" THEN Ok(NullKey) ELSE Ok(getParentKey(key))

NodeGetParentKey(T, key) ==
    IF T.kind = "root" THEN Ok(NullKey)
    ELSE IF getParentKey(key) = NullKey THEN Fail("MissingParent")
    ELSE Ok(getParentKey(key))

\* the child keys toJsonValue descends into from a flat value of type T
ChildKeys(T, value) ==
    CASE T.kind = "text" -> <<>>
      [] T.kind = "array" -> value.v
      [] OTHER -> <<value.v>>

RECURSIVE MapJson(_, _)
RECURSIVE toJsonValue(_, _)

\* keys.map(key => childType.toJsonValue(...)), left to right
MapJson(C, keys) ==
    IF keys = <<>> THEN Ok(<<>>)
    ELSE LET h == toJsonValue(C, Head(keys))
         IN  IF ~h.ok THEN h
             ELSE LET t == MapJson(C, Tail(keys))
                  IN  IF ~t.ok THEN t ELSE Ok(<<h.v>> \o t.v)

toJsonValue(T, key) ==
    LET f == getFlatValue(T, key)
    IN  IF ~f.ok THEN f
        ELSE CASE T.kind = "text" -> Ok(YTextToString(f.v))
               [] T.kind = "wrapped" ->
                    LET c == toJsonValue(TypeByName(T.child), f.v.v)
                    IN  IF ~c.ok THEN c
                        ELSE Ok([type |-> T.typeName, value |-> c.v])
               [] T.kind = "array" -> MapJson(TypeByName(T.child), f.v.v)
               [] OTHER -> toJsonValue(TypeByName(T.child), f.v.v)


(* ------------------------------- inputs ------------------------------- *)
\* JSON strings are sequences of characters
Texts == {<<>>, <<"a">>}

ParagraphJson(t) == [type |-> "paragraph", value |-> t]

SeqsUpTo(S, n) == UNION {[1..m -> S] : m \in 0..n}

\* the JSON values a node type's storeNonRoot accepts (its JSONValue type)
JsonValues(T) ==
    CASE T.kind = "text" -> Texts
      [] T.kind = "wrapped" -> {ParagraphJson(t) : t \in Texts}
      [] OTHER -> SeqsUpTo({ParagraphJson(t) : t \in Texts}, MaxParagraphs)

(* ------------------------------ call stack ---------------------------- *)
Top == stack[Len(stack)]
Pop == SubSeq(stack, 1, Len(stack) - 1)
Push(f) == Append(stack, f)
InBody == stack # <<>> /\ Top.op = "body"
\* the body is about to call a Transaction method or a node type
BodyCalls == InBody /\ hist.calls < MaxCalls

Put(m, key, value) ==
    [x \in DOMAIN m \cup {key} |-> IF x = key THEN value ELSE m[x]]

BodyFrame(tx, outer) == [op |-> "body", tx |-> tx, outer |-> outer]

InsertFrame(tx, T, key, parentKey, json) ==
    [op |-> "insert", tx |-> tx, type |-> T, key |-> key,
     parentKey |-> parentKey, json |-> json, acc |-> <<>>]

RootFrame(tx, key, json) ==
    [op |-> "storeRoot", tx |-> tx, key |-> key, json |-> json,
     child |-> NullKey,
     before |-> [doc |-> toJsonValue(AppRootType, key),
                 value |-> IF has(key) THEN values[key] ELSE Primitive,
                 lastKeyNumber |-> lastKeyNumber]]

(* ------------------------------- Init --------------------------------- *)
Init ==
    /\ values = <<>>
    /\ parentKeys = <<>>
    /\ state = <<>>
    /\ lastKeyNumber = 0
    /\ currentTransaction = NoTransaction
    /\ txCreated = 0
    /\ stack = <<>>
    /\ err = "none"
    /\ last = [op |-> "none"]
    /\ hist = [allocated |-> {}, created |-> <<>>, valued |-> <<>>,
               updates |-> 0,
               topDone |-> 0, topFailed |-> 0, calls |-> 0,
               raw |-> FALSE, tops |-> {}]
    /\ lastReturn = [id |-> 0, updateCount |-> 0]
    /\ otherLastKeyNumber = 0

(* -------------------------- EditorStore.update ------------------------ *)
\* the handle a nested update passes to its body
NestedHandle == currentTransaction

\* createNewTransaction(): a new Transaction object
createNewTransaction == txCreated + 1

Update ==
    /\ stack = <<>> \/ InBody
    /\ hist.updates < MaxUpdates
    /\ IF currentTransaction # NoTransaction
       THEN /\ stack' = Push(BodyFrame(NestedHandle, FALSE))
            /\ UNCHANGED <<currentTransaction, txCreated>>
       ELSE /\ currentTransaction' = createNewTransaction
            /\ txCreated' = createNewTransaction
            /\ stack' = Push(BodyFrame(createNewTransaction, TRUE))
    /\ err' = IF stack = <<>> THEN "none" ELSE err
    /\ last' = [op |-> "updateCall", nested |-> currentTransaction # NoTransaction,
                tx |-> stack'[Len(stack')].tx,
                top |-> stack = <<>>]
    /\ hist' = [hist EXCEPT !.updates = @ + 1]
    /\ UNCHANGED <<values, parentKeys, state, lastKeyNumber>>
    /\ UNCHANGED <<lastReturn, otherLastKeyNumber>>

\* incrementUpdateCount(), run by the call that opened the transaction
incrementUpdateCount == Put(state, "updateCount", updateCount + 1)

StateAfterBody(outer) == IF outer THEN incrementUpdateCount ELSE state

TransactionClearedAlways(outer) == NoTransaction

TransactionAfterBody(outer) ==
    IF outer THEN NoTransaction ELSE currentTransaction

\* the body function returns normally
BodyReturn ==
    /\ InBody
    /\ stack' = Pop
    /\ state' = StateAfterBody(Top.outer)
    /\ currentTransaction' = TransactionAfterBody(Top.outer)
    /\ last' = [op |-> "updateReturn", nested |-> ~Top.outer, tx |-> Top.tx,
                top |-> Len(stack) = 1, countBefore |-> updateCount]
    /\ hist' = IF Len(stack) = 1
               THEN [hist EXCEPT !.topDone = @ + 1] ELSE hist
    /\ UNCHANGED <<values, parentKeys, lastKeyNumber, txCreated, err>>
    /\ UNCHANGED <<lastReturn, otherLastKeyNumber>>

\* an error leaves every frame: no frame of the program catches
Throw(kind, h) ==
    /\ stack' = <<>>
    /\ err' = kind
    /\ hist' = [h EXCEPT !.topFailed = @ + 1]
    /\ UNCHANGED <<state, currentTransaction, txCreated>>

\* the body function raises an error of its own
BodyThrow ==
    /\ InBody
    /\ Throw("Error", hist)
    /\ last' = [op |-> "bodyThrow", countBefore |-> updateCount]
    /\ UNCHANGED <<values, parentKeys, lastKeyNumber>>
    /\ UNCHANGED <<lastReturn, otherLastKeyNumber>>


(* ----------------------------- Transaction ---------------------------- *)
\* the running code is inside the ydoc.transact call of the update that
\* created its handle
InOwnUpdate == stack # <<>> /\ stack[1].op = "body" /\ stack[1].outer

\* generateKey: lastKeyNumber += 1, then `${typeName}:${lastKeyNumber}`
KeyNumberNotAdvanced == lastKeyNumber

NextKeyNumber == lastKeyNumber + 1

GenerateKeyPerType(typeName) ==
    <<typeName, 1 + Cardinality({key \in hist.allocated : key[1] = typeName})>>

GenerateKeyUntyped(typeName) == <<"text", NextKeyNumber>>

generateKey(typeName) == <<typeName, NextKeyNumber>>

Allocate(h, key) == [h EXCEPT !.allocated = @ \cup {key}]

\* one more call made by an update body
Called == [hist EXCEPT !.calls = @ + 1]

\* history: a Transaction method called by the body itself, not by a node
\* type, has written to the store
Raw(h) == [h EXCEPT !.raw = TRUE]

\* history: newKey is the top node of the subtree a store call has stored
\* when the caller of storeNonRoot is a body or storeRoot
Returned(h, newKey, caller) ==
    IF caller.op = "insert" THEN h ELSE [h EXCEPT !.tops = @ \cup {newKey}]

\* the updateFn argument: a literal F or a function of the current value
Reverse(s) == [i \in 1..Len(s) |-> s[Len(s) + 1 - i]]

ApplyFn(f, current) ==
    CASE f = "same" -> current
      [] f = "reverse" /\ current.k = "array" -> ArrayValue(Reverse(current.v))
      [] f = "reverse" /\ current.k = "ytext" ->
            YTextNew(Reverse(YTextToString(current)))
      [] OTHER -> current

KeysOfType(c) == {key \in DOMAIN values : key[1] = c}

\* the literals of type F, F being the type the guard of T narrows to
Literals(T) ==
    CASE T.kind = "text" -> {YTextNew(t) : t \in Texts}
      [] T.kind = "array" ->
            {ArrayValue(s) : s \in SeqsUpTo(KeysOfType(T.child), 1)}
      [] OTHER -> {KeyValue(key) : key \in KeysOfType(T.child)}

UpdateFns(T) ==
    {[fn |-> FALSE, v |-> v] : v \in Literals(T)}
    \cup {[fn |-> TRUE, f |-> f] : f \in {"same", "reverse"}}

NewValueLiteralIgnored(updateFn, currentValue) ==
    IF updateFn.fn THEN ApplyFn(updateFn.f, currentValue) ELSE currentValue

NewValue(updateFn, currentValue) ==
    IF updateFn.fn THEN ApplyFn(updateFn.f, currentValue) ELSE updateFn.v

ValuesEmptyDeleted(key, newValue) ==
    IF newValue.v = <<>>
    THEN [x \in DOMAIN values \ {key} |-> values[x]]
    ELSE Put(values, key, newValue)

ValuesAfterUpdate(key, newValue) == Put(values, key, newValue)

\* tx.update writes the value map only
ParentKeysDroppedByUpdate(key) ==
    [x \in DOMAIN parentKeys \ {key} |-> parentKeys[x]]

ParentKeysAfterUpdate(key) == parentKeys

\* tx.update(guard, key, updateFn), the guard being T's validator
TxUpdate(T, key, updateFn) ==
    /\ BodyCalls
    /\ LET currentValue == getValue(T, key)
       IN  IF ~currentValue.ok
           THEN /\ Throw(currentValue.e, Called)
                /\ last' = [op |-> "update", ok |-> FALSE, key |-> key,
                            type |-> T, absent |-> ~has(key),
                            before |-> [values |-> values,
                                        parentKeys |-> parentKeys,
                                        lastKeyNumber |-> lastKeyNumber]]
                /\ UNCHANGED <<values, parentKeys, lastKeyNumber>>
           ELSE /\ values' = ValuesAfterUpdate(key,
                                 NewValue(updateFn, currentValue.v))
                /\ last' = [op |-> "update", ok |-> TRUE, key |-> key,
                            type |-> T, absent |-> ~has(key),
                            open |-> InOwnUpdate, updateFn |-> updateFn,
                            current |-> currentValue.v]
                /\ parentKeys' = ParentKeysAfterUpdate(key)
                /\ hist' = Raw(Called)
                /\ UNCHANGED <<state, lastKeyNumber,
                               currentTransaction, txCreated, stack, err>>
    /\ UNCHANGED <<lastReturn, otherLastKeyNumber>>

ValuesAfterInsertRoot(key, value) == Put(values, key, value)

\* tx.insertRoot(rootKey, value)
\* invariant(!this.has(rootKey), ...)
RootKeyNeverTaken(key) == FALSE

RootKeyTaken(key) == has(key)

Valued(h, key, tx) ==
    [h EXCEPT !.valued = Put(@, key, [tx |-> tx, count |-> updateCount,
                                      open |-> InOwnUpdate])]

insertRoot(key, value, h, lastOk, lastFailed) ==
    IF RootKeyTaken(key)
    THEN /\ Throw("AlreadyExists", h)
         /\ last' = lastFailed
         /\ UNCHANGED <<values, parentKeys, lastKeyNumber>>
    ELSE /\ values' = ValuesAfterInsertRoot(key, value)
         /\ last' = lastOk
         /\ stack' = IF Top.op = "storeRoot" THEN Pop ELSE stack
         /\ hist' = IF Top.op = "storeRoot" THEN Valued(h, key, Top.tx)
                    ELSE Raw(Valued(h, key, Top.tx))
         /\ UNCHANGED <<parentKeys, state, lastKeyNumber, currentTransaction,
                        txCreated, err>>

TxInsertRoot(value) ==
    /\ BodyCalls
    /\ insertRoot(rootKey, value, Called,
                  [op |-> "insertRoot", ok |-> TRUE, value |-> value,
                   existed |-> has(rootKey)],
                  [op |-> "insertRoot", ok |-> FALSE, existed |-> has(rootKey),
                   before |-> [doc |-> toJsonValue(AppRootType, rootKey),
                               value |-> IF has(rootKey) THEN values[rootKey]
                                         ELSE Primitive]])
    /\ UNCHANGED <<lastReturn, otherLastKeyNumber>>

ParentKeysSwapped(newKey, parentKey) == Put(parentKeys, parentKey, newKey)

ParentKeysNotRecorded(newKey, parentKey) == parentKeys

ParentKeysAfterInsert(newKey, parentKey) == Put(parentKeys, newKey, parentKey)

ValuesLeavesNotWritten(newKey, value) ==
    IF value.k = "ytext" THEN values ELSE Put(values, newKey, value)

ValuesNotWritten(newKey, value) == values

ValuesAfterInsert(newKey, value) == Put(values, newKey, value)

\* history: the parentKey argument and the handle of the insert that
\* recorded newKey's parent and wrote its first value
Created(h, newKey, parentKey, tx) ==
    [h EXCEPT !.created = Put(@, newKey,
                 [parentKey |-> parentKey, tx |-> tx, count |-> updateCount,
                  open |-> InOwnUpdate]),
              !.valued = Put(@, newKey, [tx |-> tx, count |-> updateCount,
                                         open |-> InOwnUpdate])]

\* tx.insert(typeName, parentKey, () => value): createValue returns a value
\* without calling back into the store
TxInsert(typeName, parentKey, value) ==
    /\ BodyCalls
    /\ LET newKey == generateKey(typeName)
       IN  /\ lastKeyNumber' = NextKeyNumber
           /\ parentKeys' = ParentKeysAfterInsert(newKey, parentKey)
           /\ values' = ValuesAfterInsert(newKey, value)
           /\ last' = [op |-> "insert", key |-> newKey, typeName |-> typeName,
                       parentKey |-> parentKey, value |-> value,
                       fresh |-> newKey \notin hist.allocated
                                 /\ newKey \notin DOMAIN values
                                 /\ newKey \notin DOMAIN parentKeys]
           /\ hist' = Raw(Created(Allocate(Called, newKey), newKey,
                                   parentKey, Top.tx))
    /\ UNCHANGED <<state, currentTransaction, txCreated, stack, err>>
    /\ UNCHANGED <<lastReturn, otherLastKeyNumber>>

(* ------------------------ storeNonRoot / storeRoot -------------------- *)
\* T.storeNonRoot(json, tx, parentKey) enters tx.insert: the key is
\* generated and createValue is about to run
EnterInsert(frames, h, tx, T, json, parentKey) ==
    LET newKey == generateKey(T.typeName)
    IN  /\ lastKeyNumber' = NextKeyNumber
        /\ stack' = frames \o <<InsertFrame(tx, T, newKey, parentKey, json)>>
        /\ last' = [op |-> "generateKey", key |-> newKey,
                    fresh |-> newKey \notin hist.allocated
                              /\ newKey \notin DOMAIN values
                              /\ newKey \notin DOMAIN parentKeys]
        /\ hist' = Allocate(h, newKey)
        /\ UNCHANGED <<values, parentKeys, state, currentTransaction,
                       txCreated, err>>

\* the body calls T.storeNonRoot(json, tx, parentKey)
StoreNonRoot(T, json, parentKey) ==
    /\ BodyCalls
    /\ EnterInsert(stack, Called, Top.tx, T, json, parentKey)
    /\ UNCHANGED <<lastReturn, otherLastKeyNumber>>

\* the body calls AppRootType.storeRoot(json, tx, 'root'), which first calls
\* childType.storeNonRoot(json, tx, rootKey)
StoreRoot(json) ==
    /\ BodyCalls
    /\ EnterInsert(Push(RootFrame(Top.tx, rootKey, json)), Called, Top.tx,
                   TypeByName(AppRootType.child), json, rootKey)
    /\ UNCHANGED <<lastReturn, otherLastKeyNumber>>

\* createValue of a wrapped or array node calls childType.storeNonRoot
ChildJsonFirst(frame) ==
    IF frame.type.kind = "wrapped" THEN frame.json.value ELSE frame.json[1]

ChildJson(frame) ==
    IF frame.type.kind = "wrapped" THEN frame.json.value
    ELSE frame.json[Len(frame.acc) + 1]

CallbackDone(frame) ==
    CASE frame.type.kind = "text" -> TRUE
      [] frame.type.kind = "wrapped" -> Len(frame.acc) = 1
      [] OTHER -> Len(frame.acc) = Len(frame.json)

ChildParentIsWrapperParent(frame) == frame.parentKey

ChildParentKey(frame) == frame.key

StoreChild ==
    /\ stack # <<>>
    /\ Top.op = "insert"
    /\ ~CallbackDone(Top)
    /\ EnterInsert(stack, hist, Top.tx, TypeByName(Top.type.child),
                   ChildJson(Top),
                   ChildParentKey(Top))
    /\ UNCHANGED <<lastReturn, otherLastKeyNumber>>

\* the value createValue returns
CreatedValueReversed(frame) ==
    CASE frame.type.kind = "text" -> YTextNew(frame.json)
      [] frame.type.kind = "wrapped" -> KeyValue(frame.acc[1])
      [] OTHER -> ArrayValue(Reverse(frame.acc))

CreatedValue(frame) ==
    CASE frame.type.kind = "text" -> YTextNew(frame.json)
      [] frame.type.kind = "wrapped" -> KeyValue(frame.acc[1])
      [] OTHER -> ArrayValue(frame.acc)

\* the caller's frame once the callee has returned newKey
Deliver(frame, newKey) ==
    CASE frame.op = "insert" -> [frame EXCEPT !.acc = Append(@, newKey)]
      [] frame.op = "storeRoot" -> [frame EXCEPT !.child = newKey]
      [] OTHER -> frame

\* createValue has returned: tx.insert records the parent, writes the value
\* and returns the key to the caller of storeNonRoot
InsertReturn ==
    /\ stack # <<>>
    /\ Top.op = "insert"
    /\ CallbackDone(Top)
    /\ parentKeys' = ParentKeysAfterInsert(Top.key, Top.parentKey)
    /\ values' = ValuesAfterInsert(Top.key, CreatedValue(Top))
    /\ stack' = [Pop EXCEPT ![Len(stack) - 1] = Deliver(@, Top.key)]
    /\ last' = [op |-> "storeNonRoot", type |-> Top.type, key |-> Top.key,
                json |-> Top.json, parentKey |-> Top.parentKey]
    /\ hist' = Returned(Created(hist, Top.key, Top.parentKey, Top.tx),
                        Top.key, stack[Len(stack) - 1])
    /\ UNCHANGED <<state, lastKeyNumber, currentTransaction, txCreated, err>>
    /\ UNCHANGED <<lastReturn, otherLastKeyNumber>>

\* storeRoot: the child subtree is stored, tx.insertRoot(rootKey, flatValue)
StoreRootInsert ==
    /\ stack # <<>>
    /\ Top.op = "storeRoot"
    /\ Top.child # NullKey
    /\ insertRoot(Top.key, KeyValue(Top.child), hist,
                  [op |-> "storeRoot", ok |-> TRUE, json |-> Top.json,
                   existed |-> has(Top.key)],
                  [op |-> "storeRoot", ok |-> FALSE, json |-> Top.json,
                   existed |-> has(Top.key), before |-> Top.before,
                   child |-> Top.child])
    /\ UNCHANGED <<lastReturn, otherLastKeyNumber>>

(* --------------------------------- App -------------------------------- *)
\* this.values.get(key) reads the map and writes nothing
ValuesTakenByGet(key) == [x \in DOMAIN values \ {key} |-> values[x]]

ValuesAfterGet(key) == values

\* the debug panel's json getter: AppRootType.toJsonValue of the root key
\* when the store has one, between two event handlers; `n` counts the
\* consecutive reads, two at most
ReadJson ==
    /\ stack = <<>>
    /\ has(rootKey)
    /\ ~(last.op = "toJsonValue" /\ last.n = 2)
    /\ last' = [op |-> "toJsonValue",
                result |-> toJsonValue(AppRootType, rootKey),
                n |-> IF last.op = "toJsonValue" THEN 2 ELSE 1]
    /\ values' = ValuesAfterGet(rootKey)
    /\ UNCHANGED <<parentKeys, state, lastKeyNumber, currentTransaction,
                   txCreated, stack, err, hist>>
    /\ UNCHANGED <<lastReturn, otherLastKeyNumber>>

(* -------------------------------- Next -------------------------------- *)
\* keys handed to tx.update: the root key (present or not) and the first keys
UpdateKeys == {rootKey} \cup {key \in DOMAIN values : key[2] <= 3}

\* values handed to tx.insertRoot: any NonRootKey of the store
InsertRootValues == {KeyValue(key) : key \in DOMAIN values \ {rootKey}}

ParentKeyInputs == {rootKey} \cup {key \in DOMAIN values : key[2] = lastKeyNumber}

InsertValues == {YTextNew(<<"a">>), Primitive}

Next ==
    \/ Update
    \/ BodyReturn
    \/ BodyThrow
    \/ \E T \in NonRootTypes \cup {AppRootType}, key \in UpdateKeys :
         \E updateFn \in UpdateFns(T) : TxUpdate(T, key, updateFn)
    \/ \E value \in InsertRootValues : TxInsertRoot(value)
    \/ \E typeName \in TypeNames, parentKey \in ParentKeyInputs,
          value \in InsertValues : TxInsert(typeName, parentKey, value)
    \/ \E T \in NonRootTypes, parentKey \in ParentKeyInputs :
         \E json \in JsonValues(T) : StoreNonRoot(T, json, parentKey)
    \/ \E json \in JsonValues(ContentType) : StoreRoot(json)
    \/ StoreChild
    \/ InsertReturn
    \/ StoreRootInsert
    \/ ReadJson

Spec == Init /\ [][Next]_vars

(* --------------------------- useEditorStore --------------------------- *)
\* lastReturn.current.updateCount === store.updateCount
SnapshotNeverCached == FALSE

SnapshotCached == lastReturn.updateCount = updateCount

\* the object getSnapshot returns: the cached one, or a new object (the next
\* id) holding the store's updateCount
getSnapshot ==
    IF SnapshotCached THEN lastReturn
    ELSE [id |-> lastReturn.id + 1, updateCount |-> updateCount]

\* React calls getSnapshot, between two event handlers
GetSnapshot ==
    /\ stack = <<>>
    /\ lastReturn' = getSnapshot
    /\ last' = [op |-> "getSnapshot", returned |-> getSnapshot.id,
                cached |-> lastReturn, updateCount |-> updateCount]
    /\ UNCHANGED <<values, parentKeys, state, lastKeyNumber,
                   currentTransaction, txCreated, stack, err, hist,
                   otherLastKeyNumber>>

NextSnapshot == Next \/ GetSnapshot

SnapshotSpec == Init /\ [][NextSnapshot]_vars

(* ---------------------- a second EditorStore instance ----------------- *)
\* generateKey of the second instance: its own lastKeyNumber
otherGenerateKey(typeName) == <<typeName, otherLastKeyNumber + 1>>

\* other.update(tx => tx.insert(typeName, parentKey, () => value)) on a
\* second EditorStore built over the same singleton document, run between
\* two calls of the first: the maps are shared, the counter is its own
OtherInsert(typeName, parentKey, value) ==
    /\ stack = <<>>
    /\ hist.calls < MaxCalls
    /\ LET newKey == otherGenerateKey(typeName)
       IN  /\ otherLastKeyNumber' = otherLastKeyNumber + 1
           /\ parentKeys' = ParentKeysAfterInsert(newKey, parentKey)
           /\ values' = ValuesAfterInsert(newKey, value)
           /\ last' = [op |-> "otherInsert", key |-> newKey,
                       parentKey |-> parentKey, value |-> value,
                       fresh |-> newKey \notin DOMAIN values
                                 /\ newKey \notin DOMAIN parentKeys]
    /\ state' = incrementUpdateCount
    /\ hist' = Called
    /\ UNCHANGED <<lastKeyNumber, currentTransaction, txCreated, stack, err,
                   lastReturn>>

NextTwoStores ==
    \/ Next
    \/ \E typeName \in TypeNames, parentKey \in ParentKeyInputs,
          value \in InsertValues : OtherInsert(typeName, parentKey, value)

TwoStoresSpec == Init /\ [][NextTwoStores]_vars


(* ============================== properties ============================ *)
OwnerType(key) == TypeByName(key[1])

\* C1 (round trip): when storeRoot has succeeded, toJsonValue of the root
\* node is the JSON value that was stored, and when storeNonRoot of a text,
\* wrapped or array type has returned a key, toJsonValue of that key is the
\* JSON value that was stored.
RoundTrip ==
    /\ (last.op = "storeRoot" /\ last.ok)
          => toJsonValue(AppRootType, rootKey) = Ok(last.json)
    /\ last.op = "storeNonRoot"
          => toJsonValue(last.type, last.key) = Ok(last.json)

RoundTripWitness ==
    /\ last.op = "storeRoot"
    /\ last.ok
    /\ Len(last.json) = 2
    /\ last.json[1] # last.json[2]
    /\ \E key \in DOMAIN values : key[1] = "text" /\ values[key].v # <<>>

\* C2 (commit counting): updateCount is the number of update calls, made
\* from outside any update body, that have completed.
CommitCounting == updateCount = hist.topDone

\* C3 (nested update): every body that is running was handed the store's
\* current Transaction, which stays set while any body runs; the return of a
\* nested update leaves updateCount as it was.
NestedUpdate ==
    /\ \A i \in 1..Len(stack) :
          stack[i].tx = currentTransaction /\ currentTransaction # NoTransaction
    /\ (last.op = "updateReturn" /\ last.nested)
          => updateCount = last.countBefore

NestedUpdateWitness ==
    /\ last.op = "updateReturn"
    /\ last.nested
    /\ ~last.top
    /\ InBody
    /\ Top.outer

\* C4 (single root): storeRoot or insertRoot on a root key that holds a
\* value fails with AlreadyExists and leaves the value under the root key
\* and the document read from the root as they were before the call.
SingleRoot ==
    (last.op \in {"storeRoot", "insertRoot"} /\ last.existed)
       => /\ ~last.ok
          /\ err = "AlreadyExists"
          /\ has(rootKey)
          /\ values[rootKey] = last.before.value
          /\ toJsonValue(AppRootType, rootKey) = last.before.doc

SingleRootWitness ==
    /\ last.op = "storeRoot"
    /\ last.existed
    /\ last.before.doc.ok
    /\ last.json # last.before.doc.v

\* C5 (parent integrity): getParentKey of every key that insert or
\* storeNonRoot returned is the parentKey argument of the call that created it.
ParentIntegrity ==
    \A key \in DOMAIN hist.created :
        getParentKey(key) = hist.created[key].parentKey

ParentIntegrityWitness ==
    /\ \E key \in DOMAIN hist.created : hist.created[key].parentKey = rootKey
    /\ \E key \in DOMAIN hist.created :
          /\ hist.created[key].parentKey # rootKey
          /\ key[1] = "text"
          /\ hist.created[key].parentKey[1] = "paragraph"

\* C6 (order preservation): when an array node has been stored from a JSON
\* array, the i-th child key of its flat value holds the i-th JSON element
\* and toJsonValue of the node is the JSON array in the stored order.
OrderPreservation ==
    (last.op = "storeNonRoot" /\ last.type.kind = "array")
       => /\ values[last.key].k = "array"
          /\ Len(values[last.key].v) = Len(last.json)
          /\ \A i \in 1..Len(last.json) :
                toJsonValue(TypeByName(last.type.child), values[last.key].v[i])
                   = Ok(last.json[i])
          /\ toJsonValue(last.type, last.key) = Ok(last.json)

OrderPreservationWitness ==
    /\ last.op = "storeNonRoot"
    /\ last.type.kind = "array"
    /\ Len(last.json) = 2
    /\ last.json[1] # last.json[2]

\* C7 (parent entry): every key of the value map other than the root key has
\* a parent entry, recorded through the same Transaction and before the same
\* commit as the key's first value.
ParentRecorded ==
    \A key \in DOMAIN values \ {rootKey} :
        /\ key \in DOMAIN parentKeys
        /\ key \in DOMAIN hist.created
        /\ hist.created[key].tx = hist.valued[key].tx
        /\ hist.created[key].count = hist.valued[key].count

ParentRecordedWitness ==
    /\ Cardinality(DOMAIN values \ {rootKey}) >= 3
    /\ has(rootKey)
    /\ updateCount >= 1

\* C8 (valid flat values): the flat value under every key satisfies
\* isValidFlatValue of the node type the key belongs to.
ValidFlatValues ==
    \A key \in DOMAIN values : isValidFlatValue(OwnerType(key), values[key])

\* C9 (keys never reused): a key that generateKey hands out is absent from
\* the value map and the parent map and was never handed out before.
KeysNeverReused ==
    /\ last.op \in {"generateKey", "insert"} => last.fresh
    /\ Cardinality(hist.allocated) = lastKeyNumber
    /\ \A key \in hist.allocated : key[2] \in 1..lastKeyNumber

KeysNeverReusedWitness ==
    /\ last.op = "generateKey"
    /\ lastKeyNumber >= 4
    /\ updateCount >= 1

\* C10 (no removal): a key that has a value keeps having one.
NoKeyRemoved == [][\A key \in DOMAIN values : key \in DOMAIN values']_vars

NoKeyRemovedWitness ==
    /\ has(rootKey)
    /\ last.op = "update"
    /\ last.ok
    /\ last.key = rootKey


\* C11 (parent stability): a parent entry, once recorded, is never removed
\* or changed by any later step; replacing a key's value leaves it alone.
ParentStability ==
    [][\A key \in DOMAIN parentKeys :
          key \in DOMAIN parentKeys' /\ parentKeys'[key] = parentKeys[key]]_vars

ParentStabilityWitness ==
    /\ last.op = "update"
    /\ last.ok
    /\ last.key \in DOMAIN parentKeys
    /\ values[last.key] # last.current

\* C12 (example scenario): when the only call made so far is a successful
\* storeRoot of a document with one paragraph, the value map holds the root
\* entry and exactly three generated keys, a content key whose parent is the
\* root key, a paragraph key whose parent is the content key and a text key
\* whose parent is the paragraph key.
ExampleStored == hist.calls = 1 /\ has(rootKey) /\ lastKeyNumber = 3

ExampleScenario ==
    ExampleStored =>
       \E c, p, t \in DOMAIN values :
          /\ DOMAIN values = {rootKey, c, p, t}
          /\ Cardinality(DOMAIN values) = 4
          /\ c[1] = "content" /\ p[1] = "paragraph" /\ t[1] = "text"
          /\ getParentKey(t) = p
          /\ getParentKey(p) = c
          /\ getParentKey(c) = rootKey

ExampleScenarioWitness ==
    /\ ExampleStored
    /\ updateCount = 1
    /\ stack = <<>>
    /\ toJsonValue(AppRootType, rootKey) = Ok(<<ParagraphJson(<<"a">>)>>)


ProbeKeys ==
    {rootKey} \cup hist.allocated
       \cup {<<typeName, lastKeyNumber + 1>> : typeName \in TypeNames}

NodeTypes == NonRootTypes \cup {AppRootType}

\* C14 (not found): getValue of a key that is not in the value map fails
\* with NotFound whatever the guard, and tx.update of such a key fails with
\* NotFound and leaves the value map, the parent map and the key counter as
\* they were before the call.
NotFound ==
    /\ \A T \in NodeTypes, key \in ProbeKeys :
          ~has(key) => getValue(T, key) = Fail("NotFound")
    /\ (last.op = "update" /\ last.absent) =>
          /\ ~last.ok
          /\ err = "NotFound"
          /\ values = last.before.values
          /\ parentKeys = last.before.parentKeys
          /\ lastKeyNumber = last.before.lastKeyNumber

NotFoundWitness ==
    /\ last.op = "update"
    /\ last.absent
    /\ last.key = rootKey
    /\ lastKeyNumber > 0
    /\ err = "NotFound"


\* some key that toJsonValue(T, key) visits before any absent key holds a
\* value its node type's validator rejects
RECURSIVE MismatchBelow(_, _)
MismatchBelow(T, key) ==
    /\ has(key)
    /\ \/ ~isValidFlatValue(T, values[key])
       \/ \E i \in 1..Len(ChildKeys(T, values[key])) :
             MismatchBelow(TypeByName(T.child), ChildKeys(T, values[key])[i])

\* C15 (type mismatch): where a key's flat value is rejected by the
\* validator of the node type that reads it, getFlatValue and toJsonValue
\* fail with TypeMismatch, and toJsonValue returns no value when such a key
\* lies anywhere below the key it is called on.
TypeMismatch ==
    /\ \A T \in NodeTypes, key \in DOMAIN values :
          ~isValidFlatValue(T, values[key])
             => getFlatValue(T, key) = Fail("TypeMismatch")
    /\ \A T \in NodeTypes, key \in DOMAIN values :
          ~isValidFlatValue(T, values[key])
             => toJsonValue(T, key) = Fail("TypeMismatch")
    /\ \A T \in NodeTypes, key \in DOMAIN values :
          MismatchBelow(T, key) => ~toJsonValue(T, key).ok

TypeMismatchWitness ==
    /\ last.op = "toJsonValue"
    /\ last.result = Fail("TypeMismatch")
    /\ isValidFlatValue(AppRootType, values[rootKey])
    /\ MismatchBelow(AppRootType, rootKey)

\* C16 (missing parent): getParentKey of a non-root node type fails with
\* MissingParent on every key that has no entry in the parent map.
MissingParent ==
    \A T \in NonRootTypes, key \in ProbeKeys :
       key \notin DOMAIN parentKeys
          => NodeGetParentKey(T, key) = Fail("MissingParent")

MissingParentWitness ==
    \E i \in 1..Len(stack) :
       /\ stack[i].op = "insert"
       /\ stack[i].key \in hist.allocated
       /\ stack[i].key \notin DOMAIN parentKeys
       /\ NodeGetParentKey(stack[i].type, stack[i].key) = Fail("MissingParent")


\* C17 (writes inside a transaction): every write to the value map or the
\* parent map is made while the update that created the writing handle is
\* open, that is between its opening and its commit.
WritesInOpenTransaction ==
    /\ \A key \in DOMAIN hist.valued : hist.valued[key].open
    /\ \A key \in DOMAIN hist.created : hist.created[key].open
    /\ (last.op = "update" /\ last.ok) => last.open

\* generated keys that have been allocated or recorded as a parent
KnownKeys ==
    hist.allocated
       \cup ({parentKeys[key] : key \in DOMAIN parentKeys} \ {rootKey})

RECURSIVE AgreesBelow(_, _)
AgreesBelow(T, key) ==
    /\ has(key)
    /\ \A i \in 1..Len(ChildKeys(T, values[key])) :
          /\ getParentKey(ChildKeys(T, values[key])[i]) = key
          /\ AgreesBelow(TypeByName(T.child), ChildKeys(T, values[key])[i])

\* C19 (child/parent agreement): when storeNonRoot or storeRoot has
\* returned, every child key referenced at or below the key it stored has
\* the referencing key as parent, and the child of a wrapped node does not
\* have the parentKey argument of the wrapper as parent.
ChildParentAgreement ==
    /\ last.op = "storeNonRoot" =>
          /\ AgreesBelow(last.type, last.key)
          /\ last.type.kind = "wrapped" =>
                getParentKey(values[last.key].v) # last.parentKey
    /\ (last.op = "storeRoot" /\ last.ok) => AgreesBelow(AppRootType, rootKey)

ChildParentAgreementWitness ==
    /\ last.op = "storeRoot"
    /\ last.ok
    /\ Len(last.json) = MaxParagraphs
    /\ \E key \in DOMAIN values :
          /\ key[1] = "paragraph"
          /\ getParentKey(values[key].v) = key

\* C20 (root has no parent): the root type's getParentKey and the store's
\* getParentKey of the root key return null, and the store's getParentKey
\* returns null for every key without a parent entry.
RootHasNoParent ==
    /\ NodeGetParentKey(AppRootType, rootKey) = Ok(NullKey)
    /\ getParentKey(rootKey) = NullKey
    /\ \A key \in ProbeKeys :
          key \notin DOMAIN parentKeys => getParentKey(key) = NullKey

RootHasNoParentWitness ==
    /\ has(rootKey)
    /\ \E key \in DOMAIN parentKeys : parentKeys[key] = rootKey
    /\ \E key \in hist.allocated : key \notin DOMAIN parentKeys


\* C21 (commit if and only if the body returns): when a top-level update
\* call has returned normally updateCount is one more than before the
\* return, and when a body has raised an error updateCount is what it was.
CommitIffReturn ==
    /\ (last.op = "updateReturn" /\ last.top) =>
          updateCount = last.countBefore + 1
    /\ last.op = "bodyThrow" => updateCount = last.countBefore

\* C22 (no transaction left active): while no update call is running no
\* transaction is active on the store, and a top-level update call opens a
\* fresh transaction.
NoTransactionLeftActive ==
    /\ stack = <<>> => currentTransaction = NoTransaction
    /\ (last.op = "updateCall" /\ last.top) => ~last.nested

\* the generated keys allocated after the key counter stood at n
KeysAfter(n) == {key \in hist.allocated : key[2] > n}

\* C23 (non-atomic storeRoot): when storeRoot has failed on a root key that
\* was already populated, the error is AlreadyExists, the key counter has
\* advanced, and the child subtree it stored is still there: every key it
\* generated has a value and a parent entry, the subtree's top has the root
\* key as parent and reads back as the JSON value given to storeRoot.
NonAtomicStoreRoot ==
    (last.op = "storeRoot" /\ ~last.ok) =>
       /\ last.existed
       /\ err = "AlreadyExists"
       /\ lastKeyNumber > last.before.lastKeyNumber
       /\ KeysAfter(last.before.lastKeyNumber) # {}
       /\ \A key \in KeysAfter(last.before.lastKeyNumber) :
             has(key) /\ key \in DOMAIN parentKeys
       /\ last.child \in KeysAfter(last.before.lastKeyNumber)
       /\ getParentKey(last.child) = rootKey
       /\ toJsonValue(ContentType, last.child) = Ok(last.json)
       /\ values[rootKey] = last.before.value
       /\ values[rootKey] # KeyValue(last.child)

NonAtomicStoreRootWitness ==
    /\ last.op = "storeRoot"
    /\ ~last.ok
    /\ Len(last.json) = MaxParagraphs
    /\ toJsonValue(AppRootType, rootKey).ok


\* C24 (update frame): a successful tx.update of a key stores the function's
\* result on the current value, or the literal, under the same key, and
\* leaves the set of keys, every other value, the parent map, the key
\* counter and the state map (updateCount) as they were.
UpdateEffect ==
    [][(last'.op = "update" /\ last'.ok /\ hist'.calls = hist.calls + 1) =>
          /\ last'.key \in DOMAIN values
          /\ values'[last'.key] =
                IF last'.updateFn.fn
                THEN ApplyFn(last'.updateFn.f, values[last'.key])
                ELSE last'.updateFn.v
          /\ DOMAIN values' = DOMAIN values
          /\ \A key \in DOMAIN values \ {last'.key} :
                values'[key] = values[key]
          /\ UNCHANGED <<parentKeys, lastKeyNumber, state>>]_vars

UpdateEffectWitness ==
    /\ last.op = "update"
    /\ last.ok
    /\ last.updateFn.fn
    /\ last.updateFn.f = "reverse"
    /\ values[last.key] # last.current
    /\ updateCount = 1

\* C25 (insert): tx.insert generates one new key tagged with typeName from
\* the next counter value, stores under it the value createValue returned,
\* records parentKey as its parent, changes no other value or parent entry
\* and hands the key back to its caller; for a node type's storeNonRoot the
\* key was generated when the call began and createValue ran once with it.
InsertEffect ==
    [][/\ (last'.op = "insert" /\ hist'.calls = hist.calls + 1) =>
             /\ last'.key = <<last'.typeName, lastKeyNumber + 1>>
             /\ lastKeyNumber' = lastKeyNumber + 1
             /\ last'.key \notin DOMAIN values
             /\ last'.key \notin hist.allocated
             /\ values' = Put(values, last'.key, last'.value)
             /\ parentKeys' = Put(parentKeys, last'.key, last'.parentKey)
       /\ (last'.op = "storeNonRoot" /\ Len(stack') = Len(stack) - 1) =>
             /\ last'.key = Top.key
             /\ last'.key[1] = last'.type.typeName
             /\ last'.key \in hist.allocated
             /\ last'.key \notin DOMAIN values
             /\ last'.key \notin DOMAIN parentKeys
             /\ last'.key \in DOMAIN values'
             /\ \A key \in DOMAIN values : values'[key] = values[key]
             /\ DOMAIN values' = DOMAIN values \cup {last'.key}
             /\ parentKeys' = Put(parentKeys, last'.key, last'.parentKey)
             /\ lastKeyNumber' = lastKeyNumber
             /\ LET caller == stack'[Len(stack')]
                IN  CASE caller.op = "insert" ->
                           caller.acc = Append(stack[Len(stack) - 1].acc,
                                               last'.key)
                      [] caller.op = "storeRoot" -> caller.child = last'.key
                      [] OTHER -> caller = stack[Len(stack) - 1]]_vars

InsertEffectWitness ==
    /\ last.op = "storeNonRoot"
    /\ last.type.kind = "array"
    /\ Len(values[last.key].v) = MaxParagraphs
    /\ last.parentKey # rootKey


\* C26 (no dangling child reference): when storeNonRoot writes the flat
\* value of a node, every child key the value references is already in the
\* value map; when storeRoot writes the root entry, the child subtree is
\* already written in full, its top has the root key as parent and it reads
\* back as the JSON value given to storeRoot.
NoDanglingChild ==
    [][/\ (last'.op = "storeNonRoot" /\ Len(stack') = Len(stack) - 1
              /\ last'.key \in DOMAIN values') =>
             \A i \in 1..Len(ChildKeys(last'.type, values'[last'.key])) :
                ChildKeys(last'.type, values'[last'.key])[i] \in DOMAIN values
       /\ (last'.op = "storeRoot" /\ last'.ok
              /\ Len(stack') = Len(stack) - 1) =>
             /\ rootKey \notin DOMAIN values
             /\ rootKey \in DOMAIN values'
             /\ values'[rootKey].v \in DOMAIN values
             /\ getParentKey(values'[rootKey].v) = rootKey
             /\ AgreesBelow(ContentType, values'[rootKey].v)
             /\ toJsonValue(ContentType, values'[rootKey].v)
                   = Ok(last'.json)]_vars

NoDanglingChildWitness ==
    /\ last.op = "storeRoot"
    /\ last.ok
    /\ Len(last.json) = MaxParagraphs
    /\ \A i \in 1..MaxParagraphs :
          has(values[values[rootKey].v].v[i])


\* the largest sequence number at or below key
RECURSIVE MaxNumberBelow(_, _)
MaxNumberBelow(T, key) ==
    LET children == ChildKeys(T, values[key])
    IN  IF children = <<>> THEN key[2]
        ELSE MaxNumberBelow(TypeByName(T.child), children[Len(children)])

\* at and below key every node's number is smaller than its children's and
\* each child's subtree is numbered before the next child's
RECURSIVE ParentFirst(_, _)
ParentFirst(T, key) ==
    LET children == ChildKeys(T, values[key])
    IN  \A i \in 1..Len(children) :
           /\ key[2] < children[i][2]
           /\ ParentFirst(TypeByName(T.child), children[i])
           /\ i > 1 => MaxNumberBelow(TypeByName(T.child), children[i - 1])
                          < children[i][2]

\* C27 (parent-first allocation): in the subtree a store call has stored,
\* every node's sequence number is smaller than those of its descendants
\* and the subtrees of array elements are numbered in array order; no two
\* generated keys of the store share a sequence number.
ParentFirstAllocation ==
    /\ last.op = "storeNonRoot" => ParentFirst(last.type, last.key)
    /\ (last.op = "storeRoot" /\ last.ok) =>
          ParentFirst(ContentType, values[rootKey].v)
    /\ \A k1, k2 \in hist.allocated : k1[2] = k2[2] => k1 = k2

ParentFirstAllocationWitness ==
    /\ last.op = "storeNonRoot"
    /\ last.type.kind = "array"
    /\ Len(values[last.key].v) = MaxParagraphs
    /\ last.key[2] > 1
    /\ MaxNumberBelow(last.type, last.key) = last.key[2] + 2 * MaxParagraphs


\* C28 (change-detection gate): getSnapshot writes nothing to the store;
\* it returns the cached object, and keeps it, when the cached count equals
\* updateCount, and otherwise returns a new object that becomes the cached
\* one; afterwards the cached count equals updateCount.
SnapshotGate ==
    [][(last'.op = "getSnapshot") =>
          /\ UNCHANGED <<values, parentKeys, state, lastKeyNumber>>
          /\ lastReturn.updateCount = updateCount =>
                lastReturn' = lastReturn /\ last'.returned = lastReturn.id
          /\ lastReturn.updateCount # updateCount =>
                /\ lastReturn'.id > lastReturn.id
                /\ last'.returned = lastReturn'.id
          /\ lastReturn'.updateCount = updateCount']_vars

SnapshotGateWitness ==
    /\ last.op = "getSnapshot"
    /\ last.returned = last.cached.id
    /\ lastReturn.id = 2
    /\ updateCount = 2
    /\ hist.topFailed > 0

\* C29 (two instances): an insert through either of two EditorStore
\* instances over one document returns a key that holds no value and no
\* parent entry yet.
DistinctKeysAcrossStores ==
    last.op \in {"insert", "otherInsert"} => last.fresh


\* how many times the flat value of key p references key
References(p, key) ==
    IF ~has(p) THEN 0
    ELSE Cardinality({i \in 1..Len(ChildKeys(OwnerType(p), values[p])) :
                        ChildKeys(OwnerType(p), values[p])[i] = key})

\* no update call is running and only node types have written to the store
OnlyStored == stack = <<>> /\ ~hist.raw

\* C30 (no orphans), as stated: after an update call has finished on a store
\* written only by storeRoot and storeNonRoot, the recorded parent of every
\* non-root key is in the value map and its flat value references the key
\* exactly once.
NoOrphans ==
    OnlyStored =>
       \A key \in DOMAIN values \ {rootKey} :
          has(getParentKey(key)) /\ References(getParentKey(key), key) = 1

\* C30, amended: under the same conditions every non-root key that is not
\* the top node of a store call has its recorded parent in the value map,
\* referencing it exactly once; the top node of the subtree a successful
\* storeRoot stored is referenced once by the root, its recorded parent;
\* the top node of a subtree stored by a storeNonRoot call of the body or
\* by a failed storeRoot is referenced by no flat value.
OrphansOnlyAtTops ==
    OnlyStored =>
       \A key \in DOMAIN values \ {rootKey} :
          IF key \notin hist.tops
          THEN has(getParentKey(key))
                  /\ References(getParentKey(key), key) = 1
          ELSE IF has(rootKey) /\ values[rootKey] = KeyValue(key)
          THEN getParentKey(key) = rootKey
          ELSE \A p \in DOMAIN values : References(p, key) = 0

OrphansOnlyAtTopsWitness ==
    /\ OnlyStored
    /\ has(rootKey)
    /\ err = "AlreadyExists"
    /\ \E key \in hist.tops :
          /\ getParentKey(key) = rootKey
          /\ values[rootKey] # KeyValue(key)
          /\ Len(values[key].v) = MaxParagraphs

====
